---- MODULE Spec2Model ----
(***************************************************************************)
(* Model of hphp/hack/src/hhbc/emit_class.rs: the lowering of one class    *)
(* declaration (tast::Class_) into a class descriptor (HhasClass), and the *)
(* driver emit_classes_from_program that lowers every class of a program.  *)
(*                                                                         *)
(* Rust Strings that the code inspects (class names, hint names) are       *)
(* sequences of ASCII codes, so that starts_with, eq_ignore_ascii_case and *)
(* the stripping of a leading backslash are computed, not assumed.         *)
(* Option<T> is a sequence of length at most one; Result<T> is a record    *)
(* [ok, val] or [ok, err], carrying the collaborator calls made so far.    *)
(***************************************************************************)
EXTENDS Integers, Sequences, FiniteSets, TLC

VARIABLES
    emitter,     \* the shared compilation context (&mut Emitter): its options
    calls,       \* the collaborator invocations made so far, in order
    ast_class,   \* the declaration handed to emit_class
    hoisted,     \* the hoist classification handed to emit_class
    result,      \* the Result returned by the entry point (<<>> while not returned)
    tast,        \* the program handed to emit_classes_from_program
    idx,         \* how many top-level definitions the driver's iterator has consumed
    classes      \* descriptors collected so far by the driver

vars == <<emitter, calls, ast_class, hoisted, result, tast, idx, classes>>

(***************************************************************************)
(* Bounds of the model.                                                    *)
(***************************************************************************)
MaxHints == 2
MaxMembers == 2
MaxProgram == 3

(***************************************************************************)
(* Strings as ASCII sequences.                                             *)
(***************************************************************************)
S_Closure == <<67, 108, 111, 115, 117, 114, 101>>
S_closure == <<99, 108, 111, 115, 117, 114, 101>>
S_cLOSURE == <<99, 76, 79, 83, 85, 82, 69>>
S_NsClosure == <<92, 67, 108, 111, 115, 117, 114, 101>>
S_ClosurePrefix == <<67, 108, 111, 115, 117, 114, 101, 36>>
S_Closure0 == <<67, 108, 111, 115, 117, 114, 101, 36, 48>>
S_Foo == <<70, 111, 111>>
S_A == <<65>>
S_NsB == <<92, 66>>
S_I == <<73>>
S_NsJ == <<92, 74>>
S_T == <<84>>
S_NsU == <<92, 85>>
S_Tk == <<84, 107>>
S_m == <<109>>
S_BuiltinEnum == <<72, 72, 92, 66, 117, 105, 108, 116, 105, 110, 69, 110, 117, 109>>
S_type_is_not_class == <<95, 95, 116, 121, 112, 101, 95, 105, 115, 95, 110, 111, 116, 95, 99, 108, 97, 115, 115, 95, 95>>
S_int == <<105, 110, 116>>
S_string == <<115, 116, 114, 105, 110, 103>>
S_mixed == <<109, 105, 120, 101, 100>>
S_nonnull == <<110, 111, 110, 110, 117, 108, 108>>
S_array == <<97, 114, 114, 97, 121>>
S_darray == <<100, 97, 114, 114, 97, 121>>
S_varray == <<118, 97, 114, 114, 97, 121>>
S_varray_or_darray == <<118, 97, 114, 114, 97, 121, 95, 111, 114, 95, 100, 97, 114, 114, 97, 121>>
S_this == <<116, 104, 105, 115>>
S_dynamic == <<100, 121, 110, 97, 109, 105, 99>>

to_ascii_lowercase(b) == IF b >= 65 /\ b <= 90 THEN b + 32 ELSE b

eq_ignore_ascii_case(s, t) ==
    /\ Len(s) = Len(t)
    /\ \A i \in 1..Len(s) : to_ascii_lowercase(s[i]) = to_ascii_lowercase(t[i])

starts_with(s, p) == Len(s) >= Len(p) /\ SubSeq(s, 1, Len(p)) = p

(***************************************************************************)
(* Option, Result, errors.                                                 *)
(***************************************************************************)
None == <<>>
Some(x) == <<x>>
is_some(o) == Len(o) = 1
unwrap(o) == o[1]

Ok(v, cs) == [ok |-> TRUE, val |-> v, calls |-> cs]
Err(e, cs) == [ok |-> FALSE, err |-> e, calls |-> cs]

Unrecoverable(msg) == [tag |-> "Unrecoverable", msg |-> msg]
raise_fatal_parse(pos, msg) ==
    [tag |-> "IncludeTimeFatalException", op |-> "Parse", pos |-> pos, msg |-> msg]
raise_fatal_runtime(pos, msg) ==
    [tag |-> "IncludeTimeFatalException", op |-> "Runtime", pos |-> pos, msg |-> msg]

RECURSIVE Flatten(_)
Flatten(ss) == IF ss = <<>> THEN <<>> ELSE Head(ss) \o Flatten(Tail(ss))

\* iter().map(f).collect::<Result<Vec<_>>>(): the iterator is lazy, so f runs on
\* the elements up to and including the first failing one, and on no later one.
Collect(rs) ==
    LET bad == {i \in 1..Len(rs) : ~rs[i].ok}
        k == IF bad = {} THEN Len(rs) ELSE CHOOSE i \in bad : \A j \in bad : i <= j
        cs == Flatten([i \in 1..k |-> rs[i].calls])
    IN  IF bad = {}
        THEN Ok([i \in 1..Len(rs) |-> rs[i].val], cs)
        ELSE Err(rs[k].err, cs)

(***************************************************************************)
(* The typed AST (oxidized::ast).  A hint is its position and its shape;   *)
(* name is used by Happly and Habstr, prim by Hprim.                       *)
(***************************************************************************)
Hint(pos, shape, name, prim) == [pos |-> pos, shape |-> shape, name |-> name, prim |-> prim]
Happly(pos, name) == Hint(pos, "Happly", name, "")
Hprim(pos, prim) == Hint(pos, "Hprim", <<>>, prim)
Habstr(pos, name) == Hint(pos, "Habstr", name, "")
Hshape(pos, shape) == Hint(pos, shape, <<>>, "")
Id(pos, name) == [pos |-> pos, name |-> name]

(***************************************************************************)
(* Collaborators: other crates of the compiler, known here by interface.   *)
(***************************************************************************)
\* hhbc_id::class::Type::from_ast_name: the name without its leading backslash
strip_global_ns(s) == IF Len(s) > 0 /\ s[1] = 92 THEN Tail(s) ELSE s
from_ast_name(s) == strip_global_ns(s)
from_raw_string(s) == s
to_raw_string(cls) == cls

\* emit_type_hint::hint_to_class: never fails; a hint that names no class
\* becomes a fixed placeholder class
hint_to_class(h) ==
    IF h.shape = "Happly" THEN from_ast_name(h.name) ELSE from_raw_string(S_type_is_not_class)

\* emit_type_hint::prim_to_string
prim_to_string(p) ==
    CASE p = "Tint" -> S_int
      [] p = "Tstring" -> S_string
      [] OTHER -> S_mixed

\* emit_type_hint::fmt_hint(&[], true, hint): the formatted type string, or an error
fmt_hint(h) ==
    LET c == <<[fn |-> "emit_type_hint::fmt_hint", pos |-> h.pos]>>
    IN  CASE h.shape = "Happly" -> Ok(strip_global_ns(h.name), c)
          [] h.shape = "Hprim" -> Ok(prim_to_string(h.prim), c)
          [] h.shape = "Hmixed" -> Ok(S_mixed, c)
          [] OTHER -> Err(Unrecoverable("fmt_hint"), c)

\* emit_type_constant::hint_to_type_constant(options, &vec![], &BTreeMap::new(), hint, false, false)
hint_to_type_constant(options, tparams, targ_map, hint, is_typedef, is_opaque) ==
    LET c == <<[fn |-> "emit_type_constant::hint_to_type_constant", pos |-> hint.pos,
                tparams |-> tparams, targ_map |-> targ_map,
                is_typedef |-> is_typedef, is_opaque |-> is_opaque]>>
    IN  IF hint.shape \in {"Hany", "Herr"}
        THEN Err(raise_fatal_runtime(hint.pos, "hint_to_type_constant"), c)
        ELSE Ok([kind |-> hint.shape, classname |-> hint_to_class(hint)], c)

\* emit_attribute::from_asts: lowers every attribute, or fails on the first bad one
emit_attribute_from_asts(em, namespace, user_attributes) ==
    LET c == <<[fn |-> "emit_attribute::from_asts", n |-> Len(user_attributes)]>>
        bad == {i \in 1..Len(user_attributes) : user_attributes[i].params = "bad_expr"}
    IN  IF bad /= {}
        THEN Err(Unrecoverable("emit_attribute"), c)
        ELSE Ok([i \in 1..Len(user_attributes) |->
                    [name |-> user_attributes[i].name, arguments |-> <<>>]], c)

\* emit_attribute::add_reified_attribute: Some(__Reified) when a type parameter is reified
add_reified_attribute(tparams) ==
    IF \E i \in 1..Len(tparams) : tparams[i].reified
    THEN Some([name |-> "__Reified",
               arguments |-> [i \in 1..Len(tparams) |-> tparams[i].reified]])
    ELSE None

\* hhas_attribute::has_const, has_sealed
has_const(attributes) == \E i \in 1..Len(attributes) : attributes[i].name = "__Const"
has_sealed(attributes) == \E i \in 1..Len(attributes) : attributes[i].name = "__Sealed"

\* emit_property::from_ast
emit_property_from_ast(em, class, namespace, tparams, class_is_const, args) ==
    LET c == <<[fn |-> "emit_property::from_ast", id |-> args.id.name,
                class_is_const |-> class_is_const, tparams |-> tparams,
                typehint |-> args.typehint]>>
    IN  IF args.initial_value = Some("bad_expr")
        THEN Err(raise_fatal_parse(args.id.pos, "emit_property"), c)
        ELSE Ok([name |-> args.id.name,
                 type_hint |-> args.typehint,
                 initial_value |-> args.initial_value,
                 is_const |-> class_is_const \/ has_const(args.user_attributes),
                 visibility |-> args.visibility,
                 is_static |-> args.is_static,
                 is_abstract |-> args.is_abstract,
                 doc_comment |-> args.doc_comment], c)

\* emit_method::from_asts: lowers every method, or fails on the first bad one
emit_method_from_asts(em, class, methods) ==
    LET c == <<[fn |-> "emit_method::from_asts", n |-> Len(methods)]>>
    IN  IF \E i \in 1..Len(methods) : methods[i].body = "bad_expr"
        THEN Err(raise_fatal_runtime(class.name.pos, "emit_method"), c)
        ELSE Ok([i \in 1..Len(methods) |-> [name |-> methods[i].name]], c)

\* emit_body::emit_generics_upper_bounds(tparams, false)
emit_generics_upper_bounds(tparams, skip_awaitable) ==
    [i \in 1..Len(tparams) |-> <<tparams[i].name, <<>>>>]

\* hhas_type::Info::make(user_type, hhas_type::constraint::Type::make(name, flags))
type_info_make(user_type, constraint_name, constraint_flags) ==
    [user_type |-> user_type,
     type_constraint |-> [name |-> constraint_name, flags |-> constraint_flags]]

(***************************************************************************)
(* emit_class.rs                                                           *)
(***************************************************************************)
\* the base taken from extends even for an enum
from_extends_ignoring_enum(is_enum, extends) ==
    IF Len(extends) > 0 THEN Some(hint_to_class(extends[1])) ELSE None

from_extends(is_enum, extends) ==
    IF is_enum
    THEN Some(from_raw_string(S_BuiltinEnum))
    ELSE IF Len(extends) > 0 THEN Some(hint_to_class(extends[1])) ELSE None

from_implements(implements) == [i \in 1..Len(implements) |-> hint_to_class(implements[i])]

\* the initializer expression taken for every modifier, the abstract default never
typeconst_init_from_type(tc) == tc.type_

\* the match on (&tc.abstract_, &tc.type_): the hint to lower, if any.
\* abstract_ is [kind |-> "TCAbstract", default |-> Option<Hint>], or a record
\* of kind "TCPartiallyAbstract" or "TCConcrete" (default None).
typeconst_init(tc) ==
    CASE tc.abstract_.kind = "TCAbstract" /\ ~is_some(tc.abstract_.default) -> None
      [] tc.abstract_.kind = "TCPartiallyAbstract" /\ ~is_some(tc.type_) -> None
      [] tc.abstract_.kind = "TCConcrete" /\ ~is_some(tc.type_) -> None
      [] tc.abstract_.kind = "TCAbstract" /\ is_some(tc.abstract_.default) -> tc.abstract_.default
      [] tc.abstract_.kind = "TCPartiallyAbstract" /\ is_some(tc.type_) -> tc.type_
      [] tc.abstract_.kind = "TCConcrete" /\ is_some(tc.type_) -> tc.type_

from_type_constant(em, tc) ==
    LET name == tc.name.name
        init == typeconst_init(tc)
    IN  IF ~is_some(init)
        THEN Ok([name |-> name, initializer |-> None], <<>>)
        ELSE LET r == hint_to_type_constant(em.options, <<>>, <<>>, unwrap(init), FALSE, FALSE)
             IN  IF r.ok
                 THEN Ok([name |-> name, initializer |-> Some(r.val)], r.calls)
                 ELSE Err(r.err, r.calls)

classvar_hint(cv) == IF cv.is_promoted_variadic THEN None ELSE cv.type_

from_class_elt_classvars(em, namespace, class, class_is_const, tparams) ==
    Collect([i \in 1..Len(class.vars) |->
        LET cv == class.vars[i]
        IN  emit_property_from_ast(em, class, namespace, tparams, class_is_const,
                [user_attributes |-> cv.user_attributes,
                 id |-> cv.id,
                 initial_value |-> cv.expr,
                 typehint |-> classvar_hint(cv),
                 doc_comment |-> cv.doc_comment,
                 visibility |-> cv.visibility,
                 is_static |-> cv.is_static,
                 is_abstract |-> cv.abstract_])])

from_class_elt_requirements(class) ==
    [i \in 1..Len(class.reqs) |->
        <<hint_to_class(class.reqs[i][1]),
          IF class.reqs[i][2] THEN "MustExtend" ELSE "MustImplement">>]

from_class_elt_typeconsts(em, class) ==
    Collect([i \in 1..Len(class.typeconsts) |-> from_type_constant(em, class.typeconsts[i])])

from_enum_type(opt) ==
    IF ~is_some(opt)
    THEN Ok(None, <<>>)
    ELSE LET r == fmt_hint(unwrap(opt).base)
         IN  IF r.ok
             THEN Ok(Some(type_info_make(Some(r.val), None, {"EXTENDED_HINT"})), r.calls)
             ELSE Err(r.err, r.calls)

\* lines 165-172 of emit_class
is_closure_class(class) == starts_with(class.name.name, S_ClosurePrefix)

class_attributes(em, class) ==
    LET r == emit_attribute_from_asts(em, class.namespace, class.user_attributes)
    IN  IF ~r.ok
        THEN r
        ELSE IF ~is_closure_class(class)
             THEN Ok(r.val \o add_reified_attribute(class.tparams.list), r.calls)
             ELSE r

class_is_const(attributes) == has_const(attributes)
\* no_dynamic_props decoupled from is_const
class_no_dynamic_props_off(is_const) == FALSE
class_no_dynamic_props(is_const) == is_const
class_is_trait(class) == class.kind = "Ctrait"
class_is_interface(class) == class.kind = "Cinterface"
class_is_abstract(class) == class.kind = "Cabstract"

\* uses collected without the interface check
class_uses_unchecked(class, is_interface) ==
    LET named == SelectSeq(class.uses, LAMBDA h : h.shape = "Happly")
    IN  Ok([i \in 1..Len(named) |-> named[i].name], <<>>)

\* uses: filter_map keeps the named-type applications only; for an interface
\* each of them is an error, and collect stops at the first
class_uses(class, is_interface) ==
    LET named == SelectSeq(class.uses, LAMBDA h : h.shape = "Happly")
    IN  Collect([i \in 1..Len(named) |->
            IF is_interface
            THEN Err(raise_fatal_parse(named[i].pos, "Interfaces cannot use traits"), <<>>)
            ELSE Ok(named[i].name, <<>>)])

elaborate_namespace_id(x) == from_ast_name(x.name)

class_use_aliases(class) ==
    [i \in 1..Len(class.use_as_alias) |->
        LET a == class.use_as_alias[i]
        IN  <<IF is_some(a.ido1) THEN Some(elaborate_namespace_id(unwrap(a.ido1))) ELSE None,
              a.id.name,
              IF is_some(a.ido2) THEN Some(unwrap(a.ido2).name) ELSE None,
              a.vis>>]

class_use_precedences(class) ==
    [i \in 1..Len(class.insteadof_alias) |->
        LET a == class.insteadof_alias[i]
        IN  <<elaborate_namespace_id(a.id1),
              a.id2.name,
              [j \in 1..Len(a.ids) |-> elaborate_namespace_id(a.ids[j])]>>]

\* stringification whose fallback arm yields a name instead of an error
string_of_trait_lenient(trait_) ==
    CASE trait_.shape \in {"Happly", "Habstr"} -> Ok(trait_.name, <<>>)
      [] trait_.shape = "Hprim" -> Ok(prim_to_string(trait_.prim), <<>>)
      [] trait_.shape \in {"Hany", "Herr"} ->
            Err(Unrecoverable("I'm convinced that this should be an error caught in naming"), <<>>)
      [] trait_.shape = "Hnonnull" -> Ok(S_nonnull, <<>>)
      [] trait_.shape = "Harray" -> Ok(S_array, <<>>)
      [] trait_.shape = "Hdarray" -> Ok(S_darray, <<>>)
      [] trait_.shape = "Hvarray" -> Ok(S_varray, <<>>)
      [] trait_.shape = "HvarrayOrDarray" -> Ok(S_varray_or_darray, <<>>)
      [] trait_.shape = "Hthis" -> Ok(S_this, <<>>)
      [] trait_.shape = "Hdynamic" -> Ok(S_dynamic, <<>>)
      [] OTHER -> Ok(S_mixed, <<>>)

string_of_trait(trait_) ==
    CASE trait_.shape = "Happly" -> Ok(trait_.name, <<>>)
      [] trait_.shape = "Hprim" -> Ok(prim_to_string(trait_.prim), <<>>)
      [] trait_.shape \in {"Hany", "Herr"} ->
            Err(Unrecoverable("I'm convinced that this should be an error caught in naming"), <<>>)
      [] trait_.shape = "Hmixed" -> Ok(S_mixed, <<>>)
      [] trait_.shape = "Hnonnull" -> Ok(S_nonnull, <<>>)
      [] trait_.shape = "Habstr" -> Ok(trait_.name, <<>>)
      [] trait_.shape = "Harray" -> Ok(S_array, <<>>)
      [] trait_.shape = "Hdarray" -> Ok(S_darray, <<>>)
      [] trait_.shape = "Hvarray" -> Ok(S_varray, <<>>)
      [] trait_.shape = "HvarrayOrDarray" -> Ok(S_varray_or_darray, <<>>)
      [] trait_.shape = "Hthis" -> Ok(S_this, <<>>)
      [] trait_.shape = "Hdynamic" -> Ok(S_dynamic, <<>>)
      [] OTHER -> Err(Unrecoverable("TODO Fail gracefully here"), <<>>)

class_method_trait_resolutions(class) ==
    Collect([i \in 1..Len(class.method_redeclarations) |->
        LET mtr == class.method_redeclarations[i]
            r == string_of_trait(mtr.trait_)
        IN  IF r.ok THEN Ok(<<mtr, r.val>>, r.calls) ELSE r])

class_enum_type(class) ==
    IF class.kind = "Cenum" THEN from_enum_type(class.enum_) ELSE Ok(None, <<>>)

\* finality that forgets the enum base
class_is_final_without_enum(class, is_trait, enum_type) == class.final_ \/ is_trait

class_is_final(class, is_trait, enum_type) == class.final_ \/ is_trait \/ is_some(enum_type)

class_base(class, is_interface, enum_type) ==
    IF is_interface THEN None ELSE from_extends(is_some(enum_type), class.extends)

\* the base compared with "Closure" exactly, not ignoring case
extends_closure_case_sensitive(class, base) ==
    IF is_some(base)
    THEN to_raw_string(unwrap(base)) = S_Closure /\ ~is_closure_class(class)
    ELSE FALSE

\* lines 293-302: TRUE when the class may not extend its base
extends_closure(class, base) ==
    IF is_some(base)
    THEN eq_ignore_ascii_case(to_raw_string(unwrap(base)), S_closure) /\ ~is_closure_class(class)
    ELSE FALSE

\* implements taken from the implements list even for an interface
class_implements_declared(class, is_interface) ==
    [i \in 1..Len(class.implements) |-> hint_to_class(class.implements[i])]

class_implements(class, is_interface) ==
    from_implements(IF is_interface THEN class.extends ELSE class.implements)

class_upper_bounds(em, class) ==
    IF em.options.enforce_generic_ub
    THEN [val |-> emit_generics_upper_bounds(class.tparams.list, FALSE),
          calls |-> <<[fn |-> "emit_body::emit_generics_upper_bounds"]>>]
    ELSE [val |-> <<>>, calls |-> <<>>]

class_is_xhp(class) == class.is_xhp \/ class.has_xhp_keyword

class_flags(is_final, is_sealed, is_abstract, is_interface, is_trait, is_xhp, is_const, no_dynamic_props, needs_no_reifiedinit) ==
    [IS_FINAL |-> is_final,
     IS_SEALED |-> is_sealed,
     IS_ABSTRACT |-> is_abstract,
     IS_INTERFACE |-> is_interface,
     IS_TRAIT |-> is_trait,
     IS_XHP |-> is_xhp,
     IS_CONST |-> is_const,
     NO_DYNAMIC_PROPS |-> no_dynamic_props,
     NEEDS_NO_REIFIEDINIT |-> needs_no_reifiedinit]

\* lines 323-357: the flags and the descriptor
make_class(class, hoist, pre, properties, requirements, type_constants, upper_bounds, methods) ==
    [attributes |-> pre.attributes,
     base |-> pre.base,
     implements |-> pre.implements,
     name |-> pre.name,
     span |-> class.span,
     flags |-> class_flags(pre.is_final, pre.is_sealed, pre.is_abstract,
                           pre.is_interface, pre.is_trait, class_is_xhp(class),
                           pre.is_const, pre.no_dynamic_props, FALSE),
     doc_comment |-> class.doc_comment,
     uses |-> pre.uses,
     use_aliases |-> pre.use_aliases,
     use_precedences |-> pre.use_precedences,
     method_trait_resolutions |-> pre.method_trait_resolutions,
     methods |-> methods,
     enum_type |-> pre.enum_type,
     hoisted |-> hoist,
     upper_bounds |-> upper_bounds,
     properties |-> properties,
     requirements |-> requirements,
     type_constants |-> type_constants]

\* a member order other than the code's: type constants and methods before
\* properties
emit_class_members_properties_last(em, class, hoist, pre, cs0) ==
    LET requirements == from_class_elt_requirements(class)
        r_tcs == from_class_elt_typeconsts(em, class)
    IN  IF ~r_tcs.ok THEN Err(r_tcs.err, cs0 \o r_tcs.calls) ELSE
    LET ub == class_upper_bounds(em, class)
        r_methods == emit_method_from_asts(em, class, class.methods)
    IN  IF ~r_methods.ok THEN Err(r_methods.err, cs0 \o r_tcs.calls \o ub.calls \o r_methods.calls) ELSE
    LET r_props == from_class_elt_classvars(em, class.namespace, class, pre.is_const, pre.tparams)
        cs == cs0 \o r_tcs.calls \o ub.calls \o r_methods.calls \o r_props.calls
    IN  IF ~r_props.ok THEN Err(r_props.err, cs) ELSE
        Ok(make_class(class, hoist, pre, r_props.val, requirements, r_tcs.val, ub.val,
                      r_methods.val), cs)

\* lines 311-321 and 338-358: the member lowerings, in the order of the code
\* (properties, requirements, type constants, upper bounds, methods), then the
\* descriptor.  pre holds what lines 161-309 computed, cs0 the calls made so far.
emit_class_members(em, class, hoist, pre, cs0) ==
    LET r_props == from_class_elt_classvars(em, class.namespace, class, pre.is_const, pre.tparams)
    IN  IF ~r_props.ok THEN Err(r_props.err, cs0 \o r_props.calls) ELSE
    LET requirements == from_class_elt_requirements(class)
        r_tcs == from_class_elt_typeconsts(em, class)
    IN  IF ~r_tcs.ok THEN Err(r_tcs.err, cs0 \o r_props.calls \o r_tcs.calls) ELSE
    LET ub == class_upper_bounds(em, class)
        r_methods == emit_method_from_asts(em, class, class.methods)
        cs == cs0 \o r_props.calls \o r_tcs.calls \o ub.calls \o r_methods.calls
    IN  IF ~r_methods.ok THEN Err(r_methods.err, cs) ELSE
        Ok(make_class(class, hoist, pre, r_props.val, requirements, r_tcs.val, ub.val,
                      r_methods.val), cs)

emit_class(em, class, hoist) ==
    LET r_attrs == class_attributes(em, class)
    IN  IF ~r_attrs.ok THEN Err(r_attrs.err, r_attrs.calls) ELSE
    LET attributes == r_attrs.val
        is_const == class_is_const(attributes)
        is_trait == class_is_trait(class)
        is_interface == class_is_interface(class)
        r_uses == class_uses(class, is_interface)
    IN  IF ~r_uses.ok THEN Err(r_uses.err, r_attrs.calls) ELSE
    LET r_mtr == class_method_trait_resolutions(class)
    IN  IF ~r_mtr.ok THEN Err(r_mtr.err, r_attrs.calls) ELSE
    LET r_enum == class_enum_type(class)
        cs0 == r_attrs.calls \o r_enum.calls
    IN  IF ~r_enum.ok THEN Err(r_enum.err, cs0) ELSE
    LET enum_type == r_enum.val
        base == class_base(class, is_interface, enum_type)
    IN  IF extends_closure(class, base)
        THEN Err(raise_fatal_runtime(class.name.pos, "Class cannot extend Closure"), cs0)
        ELSE emit_class_members(em, class, hoist,
                [attributes |-> attributes,
                 is_const |-> is_const,
                 no_dynamic_props |-> class_no_dynamic_props(is_const),
                 name |-> from_ast_name(class.name.name),
                 is_trait |-> is_trait,
                 is_interface |-> is_interface,
                 uses |-> r_uses.val,
                 use_aliases |-> class_use_aliases(class),
                 use_precedences |-> class_use_precedences(class),
                 method_trait_resolutions |-> r_mtr.val,
                 enum_type |-> enum_type,
                 is_abstract |-> class_is_abstract(class),
                 is_final |-> class_is_final(class, is_trait, enum_type),
                 is_sealed |-> has_sealed(attributes),
                 tparams |-> [i \in 1..Len(class.tparams.list) |-> class.tparams.list[i].name],
                 base |-> base,
                 implements |-> class_implements(class, is_interface)],
                cs0)

(***************************************************************************)
(* Inputs: class declarations as the parser and the type checker can hand  *)
(* them over.  The declarations vary a few fields at a time around         *)
(* DefaultClass, so that every combination a claim is about is present.    *)
(***************************************************************************)
SeqsUpTo(S, n) == UNION {[1..k -> S] : k \in 0..n}

Kinds == {"Cabstract", "Cnormal", "Cinterface", "Ctrait", "Cenum"}
HoistKinds == {"TopLevel", "Hoisted"}
ClassNames == {Id(20, S_Foo), Id(21, S_Closure0)}

ExtendsHints == {Happly(1, S_NsClosure), Happly(2, S_cLOSURE), Happly(3, S_A)}
ImplementsHints == {Happly(4, S_I), Happly(5, S_NsJ)}
UseHints == {Happly(6, S_T), Happly(7, S_NsU), Hprim(8, "Tint")}
RedeclHints ==
    {Happly(9, S_T), Hprim(9, "Tint"), Hprim(9, "Tstring"), Habstr(9, S_Tk)}
    \cup {Hshape(9, sh) : sh \in {"Hany", "Herr", "Hmixed", "Hnonnull", "Harray", "Hdarray",
                                  "Hvarray", "HvarrayOrDarray", "Hthis", "Hdynamic",
                                  "Hoption", "Htuple", "Hnothing"}}
Redecls == {[name |-> Id(9, S_m), trait_ |-> h] : h \in RedeclHints}
Enums == {None,
          Some([base |-> Hprim(10, "Tint")]),
          Some([base |-> Happly(10, S_NsB)]),
          Some([base |-> Hshape(10, "Herr")])}
AttrAsts == {[name |-> "__Const", params |-> "lit"],
             [name |-> "__Sealed", params |-> "lit"],
             [name |-> "__Memoize", params |-> "lit"],
             [name |-> "__Const", params |-> "bad_expr"]}
Tparams == {<<>>, <<[name |-> S_Tk, reified |-> FALSE]>>, <<[name |-> S_Tk, reified |-> TRUE]>>}

ClassVar(pos, expr, variadic, attrs, static) ==
    [id |-> Id(pos, S_m), type_ |-> Some(Hprim(pos, "Tint")), expr |-> expr,
     is_promoted_variadic |-> variadic, user_attributes |-> attrs, doc_comment |-> None,
     visibility |-> "Public", is_static |-> static, abstract_ |-> FALSE]
ClassVars == {ClassVar(11, None, FALSE, <<>>, FALSE),
              ClassVar(12, Some("lit"), TRUE, <<>>, TRUE),
              ClassVar(13, Some("bad_expr"), FALSE, <<>>, FALSE)}

TCAbstract(default) == [kind |-> "TCAbstract", default |-> default]
TCPartiallyAbstract == [kind |-> "TCPartiallyAbstract", default |-> None]
TCConcrete == [kind |-> "TCConcrete", default |-> None]
TypeConsts ==
    {[name |-> Id(14, S_Tk), abstract_ |-> a, type_ |-> t] :
        a \in {TCAbstract(None), TCAbstract(Some(Happly(15, S_A))),
               TCAbstract(Some(Hshape(15, "Herr"))), TCPartiallyAbstract, TCConcrete},
        t \in {None, Some(Hprim(16, "Tint")), Some(Hshape(16, "Hany"))}}

Methods == {<<>>, <<[name |-> S_m, body |-> "ok"]>>,
            <<[name |-> S_m, body |-> "ok"], [name |-> S_T, body |-> "bad_expr"]>>}
UseAsAliases == {<<>>,
                 <<[ido1 |-> Some(Id(17, S_NsU)), id |-> Id(17, S_m), ido2 |-> Some(Id(17, S_T)),
                    vis |-> Some("Private")],
                   [ido1 |-> None, id |-> Id(17, S_m), ido2 |-> None, vis |-> None]>>}
InsteadofAliases == {<<>>,
                     <<[id1 |-> Id(18, S_NsU), id2 |-> Id(18, S_m),
                        ids |-> <<Id(18, S_T), Id(18, S_NsB)>>]>>}
Reqs == {<<>>, <<<<Happly(19, S_NsB), TRUE>>, <<Happly(19, S_I), FALSE>>>>}

DefaultClass ==
    [span |-> 20,
     name |-> Id(20, S_Foo),
     namespace |-> "ns",
     kind |-> "Cnormal",
     final_ |-> FALSE,
     is_xhp |-> FALSE,
     has_xhp_keyword |-> FALSE,
     tparams |-> [list |-> <<>>],
     extends |-> <<>>,
     implements |-> <<>>,
     uses |-> <<>>,
     use_as_alias |-> <<>>,
     insteadof_alias |-> <<>>,
     method_redeclarations |-> <<>>,
     reqs |-> <<>>,
     typeconsts |-> <<>>,
     vars |-> <<>>,
     methods |-> <<>>,
     user_attributes |-> <<>>,
     enum_ |-> None,
     doc_comment |-> None]

\* the declarations handed to emit_class, a few fields varied at a time
\* kind, finality, name, enum base, extends and implements
InheritanceDecl(c) ==
    \E k \in Kinds, f \in BOOLEAN, n \in ClassNames,
       e \in Enums \ {Some([base |-> Happly(10, S_NsB)])},
       ex \in SeqsUpTo(ExtendsHints, MaxHints), im \in SeqsUpTo(ImplementsHints, MaxHints) :
        c = [DefaultClass EXCEPT !.kind = k, !.final_ = f, !.name = n, !.enum_ = e,
                                 !.extends = ex, !.implements = im]

\* trait uses of every shape, on every kind
TraitUseDecl(c) ==
    \E k \in Kinds, u \in SeqsUpTo(UseHints, MaxHints),
       a \in {<<>>, <<[name |-> "__Const", params |-> "bad_expr"]>>},
       ua \in UseAsAliases, ia \in InsteadofAliases, rq \in Reqs :
        c = [DefaultClass EXCEPT !.kind = k, !.uses = u, !.user_attributes = a,
                                 !.use_as_alias = ua, !.insteadof_alias = ia, !.reqs = rq]

\* every fallible step succeeding or failing, in every combination
FallibleDecl(c) ==
    \E k \in Kinds,
       a \in {<<>>, <<[name |-> "__Const", params |-> "bad_expr"]>>},
       u \in {<<>>, <<Happly(6, S_T)>>},
       r \in {<<>>, <<[name |-> Id(9, S_m), trait_ |-> Hshape(9, "Hany")]>>},
       e \in {None, Some([base |-> Hprim(10, "Tint")]), Some([base |-> Hshape(10, "Herr")])},
       ex \in {<<>>, <<Happly(2, S_cLOSURE)>>},
       v \in {<<ClassVar(11, None, FALSE, <<>>, FALSE)>>,
              <<ClassVar(13, Some("bad_expr"), FALSE, <<>>, FALSE)>>},
       t \in {<<[name |-> Id(14, S_Tk), abstract_ |-> TCConcrete, type_ |-> Some(Hprim(16, "Tint"))]>>,
              <<[name |-> Id(14, S_Tk), abstract_ |-> TCConcrete, type_ |-> Some(Hshape(16, "Hany"))]>>},
       m \in {<<[name |-> S_m, body |-> "ok"]>>, <<[name |-> S_m, body |-> "bad_expr"]>>} :
        c = [DefaultClass EXCEPT !.kind = k, !.user_attributes = a, !.uses = u,
                                 !.method_redeclarations = r, !.enum_ = e, !.extends = ex,
                                 !.vars = v, !.typeconsts = t, !.methods = m]

\* attributes, type parameters and properties
AttributeDecl(c) ==
    \E n \in ClassNames, a \in SeqsUpTo(AttrAsts, MaxMembers), tp \in Tparams,
       v \in SeqsUpTo(ClassVars, MaxMembers), x \in BOOLEAN :
        c = [DefaultClass EXCEPT !.name = n, !.user_attributes = a, !.tparams = [list |-> tp],
                                 !.vars = v, !.is_xhp = x]

\* method redeclarations of every hint shape
RedeclarationDecl(c) ==
    \E k \in {"Ctrait", "Cnormal"}, r \in SeqsUpTo(Redecls, MaxHints) :
        c = [DefaultClass EXCEPT !.kind = k, !.method_redeclarations = r]

\* type constants of every modifier, with and without initializer
TypeConstDecl(c) ==
    \E t \in SeqsUpTo(TypeConsts, MaxMembers), m \in Methods :
        c = [DefaultClass EXCEPT !.typeconsts = t, !.methods = m]

\* type parameters on every kind
ContextDecl(c) ==
    \E k \in Kinds, tp \in Tparams :
        c = [DefaultClass EXCEPT !.kind = k, !.tparams = [list |-> tp]]

Emitters == {[options |-> [enforce_generic_ub |-> b]] : b \in BOOLEAN}

\* the top-level definitions of a program
ClassDef(c) == [def |-> "Class", class |-> Some(c)]
OtherDefs == {[def |-> "Fun", class |-> None]}
ProgramClasses ==
    {DefaultClass,
     [DefaultClass EXCEPT !.name = Id(22, S_A), !.kind = "Ctrait",
                          !.vars = <<ClassVar(11, None, FALSE, <<>>, FALSE)>>],
     [DefaultClass EXCEPT !.name = Id(23, S_I), !.kind = "Cinterface", !.uses = <<Happly(6, S_T)>>],
     [DefaultClass EXCEPT !.name = Id(24, S_T), !.extends = <<Happly(1, S_NsClosure)>>,
                          !.user_attributes = <<[name |-> "__Const", params |-> "lit"]>>],
     [DefaultClass EXCEPT !.name = Id(25, S_Tk),
                          !.vars = <<ClassVar(13, Some("bad_expr"), FALSE, <<>>, FALSE)>>]}
Defs == OtherDefs \cup {ClassDef(c) : c \in ProgramClasses}
Programs == SeqsUpTo(Defs, MaxProgram)

(***************************************************************************)
(* Spec: one call of emit_class on any declaration.                        *)
(***************************************************************************)
Returned(r) == [ok |-> r.ok, out |-> IF r.ok THEN r.val ELSE r.err]

DefaultEmitter == [options |-> [enforce_generic_ub |-> FALSE]]

\* emit_class's arguments: every declaration under the default context, and
\* the declarations with type parameters under every context
Init ==
    /\ \/ /\ \/ InheritanceDecl(ast_class)
             \/ TraitUseDecl(ast_class)
             \/ FallibleDecl(ast_class)
             \/ AttributeDecl(ast_class)
             \/ RedeclarationDecl(ast_class)
             \/ TypeConstDecl(ast_class)
          /\ emitter = DefaultEmitter
          /\ hoisted = "TopLevel"
       \/ /\ ContextDecl(ast_class)
          /\ emitter \in Emitters
          /\ hoisted \in HoistKinds
    /\ calls = <<>>
    /\ result = None
    /\ tast = <<>>
    /\ idx = 0
    /\ classes = <<>>

EmitClass ==
    /\ result = None
    /\ LET r == emit_class(emitter, ast_class, hoisted)
       IN  /\ result' = Some(Returned(r))
           /\ calls' = calls \o r.calls
    /\ UNCHANGED <<emitter, ast_class, hoisted, tast, idx, classes>>

Next == EmitClass

Spec == Init /\ [][Next]_vars

(***************************************************************************)
(* SpecProgram: emit_classes_from_program on any program.  The iterator    *)
(* chain filter_map(..).collect() pulls one definition at a time and stops *)
(* at the first Err.                                                       *)
(***************************************************************************)
InitProgram ==
    /\ emitter \in Emitters
    /\ tast \in Programs
    /\ ast_class = None
    /\ hoisted = "TopLevel"
    /\ calls = <<>>
    /\ result = None
    /\ idx = 0
    /\ classes = <<>>

\* a definition that is no class is filtered out
SkipDef ==
    /\ result = None
    /\ idx < Len(tast)
    /\ tast[idx + 1].def /= "Class"
    /\ idx' = idx + 1
    /\ UNCHANGED <<emitter, calls, ast_class, hoisted, result, tast, classes>>

LowerClassOk ==
    /\ result = None
    /\ idx < Len(tast)
    /\ tast[idx + 1].def = "Class"
    /\ LET cd == unwrap(tast[idx + 1].class)
           r == emit_class(emitter, cd, "TopLevel")
       IN  /\ r.ok
           /\ ast_class' = Some(cd)
           /\ calls' = calls \o r.calls
           /\ classes' = Append(classes, r.val)
    /\ idx' = idx + 1
    /\ UNCHANGED <<emitter, hoisted, result, tast>>

\* a failing class skipped instead of ending the iteration
LowerClassErrSkipped ==
    /\ result = None
    /\ idx < Len(tast)
    /\ tast[idx + 1].def = "Class"
    /\ LET cd == unwrap(tast[idx + 1].class)
           r == emit_class(emitter, cd, "TopLevel")
       IN  /\ ~r.ok
           /\ ast_class' = Some(cd)
           /\ calls' = calls \o r.calls
    /\ idx' = idx + 1
    /\ UNCHANGED <<emitter, hoisted, result, tast, classes>>

LowerClassErr ==
    /\ result = None
    /\ idx < Len(tast)
    /\ tast[idx + 1].def = "Class"
    /\ LET cd == unwrap(tast[idx + 1].class)
           r == emit_class(emitter, cd, "TopLevel")
       IN  /\ ~r.ok
           /\ ast_class' = Some(cd)
           /\ calls' = calls \o r.calls
           /\ result' = Some([ok |-> FALSE, out |-> r.err])
    /\ idx' = idx + 1
    /\ UNCHANGED <<emitter, hoisted, tast, classes>>

\* the iterator is exhausted: collect returns the descriptors
ReturnClasses ==
    /\ result = None
    /\ idx = Len(tast)
    /\ result' = Some([ok |-> TRUE, out |-> classes])
    /\ UNCHANGED <<emitter, calls, ast_class, hoisted, tast, idx, classes>>

NextProgram == SkipDef \/ LowerClassOk \/ LowerClassErr \/ ReturnClasses

SpecProgram == InitProgram /\ [][NextProgram]_vars

(***************************************************************************)
(* Properties.                                                             *)
(***************************************************************************)
Done == is_some(result)
R == unwrap(result)

IsFatal(e, op) == e.tag = "IncludeTimeFatalException" /\ e.op = op
IsUnrecoverable(e) == e.tag = "Unrecoverable"

InterfaceUseError(pos) == raise_fatal_parse(pos, "Interfaces cannot use traits")
ExtendsClosureError(c) == raise_fatal_runtime(c.name.pos, "Class cannot extend Closure")

\* the outcome of each fallible step of emit_class on declaration c, taken alone
AttrStep(c) == emit_attribute_from_asts(emitter, c.namespace, c.user_attributes)
UsesStep(c) == class_uses(c, c.kind = "Cinterface")
RedeclStep(c) == class_method_trait_resolutions(c)
EnumStep(c) == class_enum_type(c)
PropsStep(c) == from_class_elt_classvars(emitter, c.namespace, c, FALSE, <<>>)
TypeConstsStep(c) == from_class_elt_typeconsts(emitter, c)
MethodsStep(c) == emit_method_from_asts(emitter, c, c.methods)

HasNamedUse(c) == \E i \in 1..Len(c.uses) : c.uses[i].shape = "Happly"
FirstNamedUse(c) ==
    CHOOSE i \in 1..Len(c.uses) :
        c.uses[i].shape = "Happly" /\ \A j \in 1..(i - 1) : c.uses[j].shape /= "Happly"

\* the first extends entry converts to "Closure", ignoring ASCII case
FirstExtendsIsClosure(c) ==
    Len(c.extends) > 0 /\ eq_ignore_ascii_case(hint_to_class(c.extends[1]), S_Closure)
NamedAsClosure(c) == starts_with(c.name.name, S_ClosurePrefix)

\* C1 as written: every interface with a non-empty trait-use list, whatever
\* the shapes of its use hints, is rejected with the UserFatalParse error
\* "Interfaces cannot use traits" (read with attribute lowering succeeding).
C1_AnyUseOfInterfaceIsFatal ==
    (Done /\ ast_class.kind = "Cinterface" /\ Len(ast_class.uses) > 0 /\ AttrStep(ast_class).ok)
        => (~R.ok /\ IsFatal(R.out, "Parse") /\ R.out.msg = "Interfaces cannot use traits")

\* C1 amended: an interface whose attribute lowering succeeds is rejected with
\* UserFatalParse "Interfaces cannot use traits", at the position of its first
\* named-type-application use hint, exactly when its trait-use list holds such
\* a hint; use hints of other shapes are ignored and never raise this error.
C1_NamedUseOfInterfaceIsFatal ==
    (Done /\ ast_class.kind = "Cinterface" /\ AttrStep(ast_class).ok)
        => IF HasNamedUse(ast_class)
           THEN /\ ~R.ok
                /\ R.out = InterfaceUseError(ast_class.uses[FirstNamedUse(ast_class)].pos)
           ELSE ~(~R.ok /\ R.out.msg = "Interfaces cannot use traits")

C1_Witness ==
    /\ Done
    /\ ast_class.kind = "Cinterface"
    /\ Len(ast_class.uses) = 2
    /\ ast_class.uses[1].shape = "Hprim"
    /\ ast_class.uses[2].shape = "Happly"
    /\ ~R.ok
    /\ R.out = InterfaceUseError(ast_class.uses[2].pos)

\* C2 as written: a declaration of any kind whose first extends entry converts
\* to "Closure" (ignoring case) and whose name does not start with "Closure$"
\* is rejected with UserFatalRuntime at the class name (read with every
\* earlier step succeeding).
C2_AnyKindExtendingClosureIsFatal ==
    (/\ Done
     /\ FirstExtendsIsClosure(ast_class)
     /\ ~NamedAsClosure(ast_class)
     /\ AttrStep(ast_class).ok /\ UsesStep(ast_class).ok
     /\ RedeclStep(ast_class).ok /\ EnumStep(ast_class).ok)
        => (~R.ok /\ R.out = ExtendsClosureError(ast_class))

\* C2 amended: the rejection applies to the resolved base.  A declaration that
\* is not an interface and not an enum carrying an enum base-type record, whose
\* first extends entry converts to "Closure" ignoring ASCII case, whose name
\* does not start with "Closure$", and whose attribute lowering and
\* method-redeclaration resolution succeed, is rejected with UserFatalRuntime
\* "Class cannot extend Closure" at the class name.  No other declaration is
\* rejected with that error: not an interface (base None), not an enum with a
\* base record (base HH\BuiltinEnum), not a class named "Closure$...".
C2_ResolvedBaseClosureIsFatal ==
    Done =>
        LET resolved == /\ ast_class.kind /= "Cinterface"
                        /\ ~(ast_class.kind = "Cenum" /\ is_some(ast_class.enum_))
            forbidden == /\ FirstExtendsIsClosure(ast_class)
                         /\ ~NamedAsClosure(ast_class)
                         /\ resolved
            rejected == ~R.ok /\ R.out = ExtendsClosureError(ast_class)
        IN  /\ (forbidden /\ AttrStep(ast_class).ok /\ RedeclStep(ast_class).ok) => rejected
            /\ rejected => forbidden

C2_Witness ==
    /\ Done
    /\ ast_class.kind = "Ctrait"
    /\ Len(ast_class.extends) = 2
    /\ ast_class.extends[1].name = S_cLOSURE
    /\ ~R.ok
    /\ R.out = ExtendsClosureError(ast_class)

\* C3 as written: every descriptor of a trait or of an enum has IS_FINAL set,
\* whether or not the enum carries an enum base-type record.
C3_TraitAndEnumAlwaysFinal ==
    (Done /\ R.ok /\ ast_class.kind \in {"Ctrait", "Cenum"}) => R.out.flags.IS_FINAL

\* C3 amended: in every descriptor, IS_FINAL is set exactly when the
\* declaration is declared final, or is a trait, or is an enum carrying an
\* enum base-type record; so it is set for every trait and for every enum with
\* a base record whatever the declared final flag, and an enum without a base
\* record is final only when declared final.
C3_FinalIffDeclaredTraitOrEnumBase ==
    (Done /\ R.ok) =>
        (R.out.flags.IS_FINAL <=>
            \/ ast_class.final_
            \/ ast_class.kind = "Ctrait"
            \/ (ast_class.kind = "Cenum" /\ is_some(ast_class.enum_)))

C3_Witness ==
    /\ Done /\ R.ok
    /\ ast_class.kind = "Cenum"
    /\ is_some(ast_class.enum_)
    /\ ~ast_class.final_
    /\ R.out.flags.IS_FINAL

\* the converted first extends entry, None when there is none
FirstExtends(c) == IF Len(c.extends) > 0 THEN Some(hint_to_class(c.extends[1])) ELSE None

\* C4 as written: every descriptor of an enum has base HH\BuiltinEnum, whether
\* or not an enum base hint was declared, and enum_type is Some exactly when
\* the hint was declared; for every other kind enum_type is None.
C4_EnumBaseAlwaysBuiltin ==
    (Done /\ R.ok) =>
        IF ast_class.kind = "Cenum"
        THEN /\ R.out.base = Some(S_BuiltinEnum)
             /\ is_some(R.out.enum_type) <=> is_some(ast_class.enum_)
        ELSE R.out.enum_type = None

\* C4 amended: in the descriptor of an enum carrying an enum base hint, base is
\* HH\BuiltinEnum whatever the extends list, and enum_type is Some (the
\* formatted base hint, tagged EXTENDED_HINT); in the descriptor of an enum
\* without an enum base hint, enum_type is None and base is the converted first
\* extends entry (None when extends is empty); for every other kind enum_type
\* is None.
C4_EnumBaseBuiltinWhenHintDeclared ==
    (Done /\ R.ok) =>
        IF ast_class.kind = "Cenum"
        THEN IF is_some(ast_class.enum_)
             THEN /\ R.out.base = Some(S_BuiltinEnum)
                  /\ is_some(R.out.enum_type)
                  /\ unwrap(R.out.enum_type).user_type = Some(fmt_hint(unwrap(ast_class.enum_).base).val)
                  /\ unwrap(R.out.enum_type).type_constraint.flags = {"EXTENDED_HINT"}
             ELSE /\ R.out.enum_type = None
                  /\ R.out.base = FirstExtends(ast_class)
        ELSE R.out.enum_type = None

C4_Witness ==
    /\ Done /\ R.ok
    /\ ast_class.kind = "Cenum"
    /\ is_some(ast_class.enum_)
    /\ Len(ast_class.extends) > 0
    /\ R.out.base = Some(S_BuiltinEnum)
    /\ is_some(R.out.enum_type)

\* C5: in the descriptor of an interface, base is None and implements is the
\* extends list converted element by element in order (the implements list
\* does not contribute); in every other descriptor implements is the converted
\* implements list; for a kind that is neither interface nor enum, base is the
\* converted first extends entry (None when extends is empty), and the later
\* extends entries do not change the descriptor.
C5_BaseAndImplements ==
    (Done /\ R.ok) =>
        IF ast_class.kind = "Cinterface"
        THEN /\ R.out.base = None
             /\ R.out.implements = [i \in 1..Len(ast_class.extends) |-> hint_to_class(ast_class.extends[i])]
        ELSE /\ R.out.implements =
                    [i \in 1..Len(ast_class.implements) |-> hint_to_class(ast_class.implements[i])]
             /\ ast_class.kind /= "Cenum" =>
                    /\ R.out.base = FirstExtends(ast_class)
                    /\ Len(ast_class.extends) > 1 =>
                        R.out = emit_class(emitter,
                                    [ast_class EXCEPT !.extends = <<ast_class.extends[1]>>],
                                    hoisted).val

C5_Witness ==
    /\ Done /\ R.ok
    /\ ast_class.kind = "Cinterface"
    /\ Len(ast_class.extends) = 2
    /\ Len(ast_class.implements) > 0
    /\ ast_class.extends[1].name = S_NsClosure
    /\ R.out.implements = <<S_Closure, hint_to_class(ast_class.extends[2])>>

\* the class declarations among the definitions s, in order, and their lowerings
ClassesOf(s) == SelectSeq(s, LAMBDA d : d.def = "Class")
Lowered(s) ==
    [i \in 1..Len(ClassesOf(s)) |-> emit_class(emitter, unwrap(ClassesOf(s)[i].class), "TopLevel")]

\* C6: emit_classes_from_program lowers only the class declarations, in
\* declaration order, each with hoist classification TopLevel.  At every point
\* the collaborator calls made are exactly those of the class declarations
\* consumed so far, and only the last of them can have failed; it returns the
\* descriptors of all class declarations in order when all succeed, and the
\* error of the earliest failing one otherwise, nothing after it being lowered.
C6_ProgramStopsAtFirstError ==
    LET rs == Lowered(SubSeq(tast, 1, idx))
        n == Len(rs)
    IN  /\ calls = Flatten([i \in 1..n |-> rs[i].calls])
        /\ \A i \in 1..(n - 1) : rs[i].ok
        /\ ~Done => /\ \A i \in 1..n : rs[i].ok
                    /\ classes = [i \in 1..n |-> rs[i].val]
        /\ (Done /\ R.ok) =>
                /\ idx = Len(tast)
                /\ \A i \in 1..n : rs[i].ok
                /\ R.out = [i \in 1..n |-> rs[i].val]
                /\ \A i \in 1..n : R.out[i].hoisted = "TopLevel"
        /\ (Done /\ ~R.ok) =>
                /\ n > 0
                /\ tast[idx].def = "Class"
                /\ ~rs[n].ok
                /\ R.out = rs[n].err

C6_Witness ==
    /\ Done /\ ~R.ok
    /\ Len(tast) = 3
    /\ idx = 2
    /\ Len(classes) = 1
    /\ tast[1].def = "Class"
    /\ tast[3].def = "Class"
    /\ ~emit_class(emitter, unwrap(tast[3].class), "TopLevel").ok
    /\ R.out /= emit_class(emitter, unwrap(tast[3].class), "TopLevel").err

PropertyCalls == SelectSeq(calls, LAMBDA c : c.fn = "emit_property::from_ast")
DeclaredConst(c) ==
    \E i \in 1..Len(c.user_attributes) : c.user_attributes[i].name = "__Const"

\* C7: in every descriptor IS_CONST and NO_DYNAMIC_PROPS are equal, and set
\* exactly when the assembled attribute list (the declared attributes plus, for
\* a class not named "Closure$...", the synthesized reified-generics attribute)
\* contains a "__Const" attribute; every property lowering call of the class
\* was given that same const-ness.
C7_ConstCoupling ==
    (Done /\ R.ok) =>
        /\ R.out.flags.IS_CONST = R.out.flags.NO_DYNAMIC_PROPS
        /\ R.out.attributes =
                AttrStep(ast_class).val
                    \o (IF NamedAsClosure(ast_class) THEN <<>>
                        ELSE add_reified_attribute(ast_class.tparams.list))
        /\ R.out.flags.IS_CONST <=>
                \E i \in 1..Len(R.out.attributes) : R.out.attributes[i].name = "__Const"
        /\ R.out.flags.IS_CONST <=> DeclaredConst(ast_class)
        /\ Len(PropertyCalls) = Len(ast_class.vars)
        /\ \A i \in 1..Len(PropertyCalls) :
                PropertyCalls[i].class_is_const = R.out.flags.IS_CONST

C7_Witness ==
    /\ Done /\ R.ok
    /\ R.out.flags.IS_CONST
    /\ R.out.flags.NO_DYNAMIC_PROPS
    /\ Len(R.out.attributes) = 3
    /\ Len(PropertyCalls) = 2
    /\ PropertyCalls[2].class_is_const

\* the fallible steps of emit_class in a given order, each with the
\* collaborators it invokes; the closure-base validation is the step "closure"
StepResult(c, step) ==
    CASE step = "attributes" -> AttrStep(c)
      [] step = "uses" -> UsesStep(c)
      [] step = "redeclarations" -> RedeclStep(c)
      [] step = "enum" -> EnumStep(c)
      [] step = "closure" ->
            IF /\ EnumStep(c).ok
               /\ c.kind /= "Cinterface"
               /\ ~(c.kind = "Cenum" /\ is_some(c.enum_))
               /\ FirstExtendsIsClosure(c)
               /\ ~NamedAsClosure(c)
            THEN Err(ExtendsClosureError(c), <<>>)
            ELSE Ok(<<>>, <<>>)
      [] step = "properties" -> PropsStep(c)
      [] step = "type_constants" -> TypeConstsStep(c)
      [] step = "methods" -> MethodsStep(c)

StepFns(step) ==
    CASE step = "attributes" -> {"emit_attribute::from_asts"}
      [] step = "enum" -> {"emit_type_hint::fmt_hint"}
      [] step = "properties" -> {"emit_property::from_ast"}
      [] step = "type_constants" -> {"emit_type_constant::hint_to_type_constant"}
      [] step = "methods" -> {"emit_method::from_asts"}
      [] OTHER -> {}

\* emit_class ran its steps in the given order: the first failing step's error
\* is returned, every step before it invoked its collaborators, no step after
\* it invoked any, and the calls were made in the order of the steps
RanInOrder(order) ==
    LET c == ast_class
        bad == {k \in 1..Len(order) : ~StepResult(c, order[k]).ok}
        first == IF bad = {} THEN Len(order) ELSE CHOOSE k \in bad : \A j \in bad : k <= j
        rank(fn) == CHOOSE k \in 0..Len(order) :
                        IF \E j \in 1..Len(order) : fn \in StepFns(order[j])
                        THEN k > 0 /\ fn \in StepFns(order[k])
                        ELSE k = 0
        stepCalls == SelectSeq(calls, LAMBDA x : rank(x.fn) > 0)
    IN  /\ R.ok <=> bad = {}
        /\ bad /= {} => R.out = StepResult(c, order[first]).err
        /\ \A i \in 1..Len(stepCalls) : rank(stepCalls[i].fn) <= first
        /\ \A k \in 1..first : \A fn \in StepFns(order[k]) :
                StepResult(c, order[k]).calls /= <<>> => \E i \in 1..Len(stepCalls) : stepCalls[i].fn = fn
        /\ \A i, j \in 1..Len(stepCalls) : i < j => rank(stepCalls[i].fn) <= rank(stepCalls[j].fn)

\* C8 as written: the fallible steps run in the order attribute lowering,
\* trait-use collection, method-redeclaration resolution, enum base,
\* closure-base validation, type constants, methods, properties; so when a
\* type-constant or the method-list lowering would fail and a property
\* lowering would fail too, the type-constant or method error is returned and
\* property lowering is not invoked.
C8_TypeConstOrMethodErrorBeforeProperty ==
    (/\ Done
     /\ \A st \in {"attributes", "uses", "redeclarations", "enum", "closure"} :
            StepResult(ast_class, st).ok
     /\ ~PropsStep(ast_class).ok
     /\ ~TypeConstsStep(ast_class).ok \/ ~MethodsStep(ast_class).ok)
        => /\ ~R.ok
           /\ R.out \in {StepResult(ast_class, st).err :
                            st \in {x \in {"type_constants", "methods"} : ~StepResult(ast_class, x).ok}}
           /\ Len(PropertyCalls) = 0

\* C8 amended: the fallible steps run in the order attribute lowering,
\* trait-use collection, method-redeclaration resolution, enum base,
\* closure-base validation, properties, type constants, methods.  The first
\* step that fails ends the lowering, its error is returned unchanged and no
\* later step's collaborator is invoked; in particular when a property lowering
\* would fail and a type-constant or the method-list lowering would fail too,
\* the property error is returned and neither the type-constant nor the method
\* collaborator is invoked.
C8_MembersOrderPropertiesTypeConstsMethods ==
    Done => RanInOrder(<<"attributes", "uses", "redeclarations", "enum", "closure",
                         "properties", "type_constants", "methods">>)

C8_Witness ==
    /\ Done /\ ~R.ok
    /\ AttrStep(ast_class).ok /\ StepResult(ast_class, "closure").ok
    /\ ~PropsStep(ast_class).ok
    /\ ~TypeConstsStep(ast_class).ok
    /\ ~MethodsStep(ast_class).ok
    /\ R.out = PropsStep(ast_class).err
    /\ \A i \in 1..Len(calls) : calls[i].fn = "emit_attribute::from_asts"
                                    \/ calls[i].fn = "emit_property::from_ast"

\* the trait name each hint shape is stringified to; no name for the shapes
\* that are an error
StringifiedShapes == {"Happly", "Hprim", "Hmixed", "Hnonnull", "Habstr", "Harray", "Hdarray",
                      "Hvarray", "HvarrayOrDarray", "Hthis", "Hdynamic"}
TraitName(h) ==
    CASE h.shape \in {"Happly", "Habstr"} -> h.name
      [] h.shape = "Hprim" -> prim_to_string(h.prim)
      [] h.shape = "Hmixed" -> S_mixed
      [] h.shape = "Hnonnull" -> S_nonnull
      [] h.shape = "Harray" -> S_array
      [] h.shape = "Hdarray" -> S_darray
      [] h.shape = "Hvarray" -> S_varray
      [] h.shape = "HvarrayOrDarray" -> S_varray_or_darray
      [] h.shape = "Hthis" -> S_this
      [] h.shape = "Hdynamic" -> S_dynamic
UnnamedRedecls(c) ==
    {i \in 1..Len(c.method_redeclarations) :
        c.method_redeclarations[i].trait_.shape \notin StringifiedShapes}
StringifyErrors ==
    {Unrecoverable("I'm convinced that this should be an error caught in naming"),
     Unrecoverable("TODO Fail gracefully here")}

\* C9 as written: a method redeclaration whose trait hint is an any-type or
\* error-type hint, or any shape that is not stringified, makes emit_class
\* return an UnrecoverableInternal error.
C9_BadTraitHintIsUnrecoverable ==
    (Done /\ UnnamedRedecls(ast_class) /= {}) => (~R.ok /\ IsUnrecoverable(R.out))

\* C9 amended: a named-type application is stringified to its name, a
\* primitive to its keyword string, mixed/nonnull/abstract-type-parameter/
\* array-family/this/dynamic to their canonical strings, and these never
\* produce an error.  A redeclaration whose hint is an any-type or error-type
\* hint, or any other shape, leaves emit_class without a descriptor; the error
\* returned is the UnrecoverableInternal error of the first such redeclaration
\* unless an earlier step (attribute lowering, or the trait-use check of an
\* interface) has failed, whose error is returned instead.  On success
\* method_trait_resolutions has one entry per redeclaration, in declaration
\* order, pairing the redeclaration with its resolved name.
C9_TraitHintStringification ==
    Done =>
        LET reds == ast_class.method_redeclarations
            bad == UnnamedRedecls(ast_class)
            first == CHOOSE i \in bad : \A j \in bad : i <= j
        IN  /\ bad /= {} => ~R.ok
            /\ (bad /= {} /\ AttrStep(ast_class).ok /\ UsesStep(ast_class).ok) =>
                    R.out = IF reds[first].trait_.shape \in {"Hany", "Herr"}
                            THEN Unrecoverable("I'm convinced that this should be an error caught in naming")
                            ELSE Unrecoverable("TODO Fail gracefully here")
            /\ bad = {} => ~(~R.ok /\ R.out \in StringifyErrors)
            /\ R.ok =>
                    R.out.method_trait_resolutions =
                        [i \in 1..Len(reds) |-> <<reds[i], TraitName(reds[i].trait_)>>]

C9_Witness ==
    /\ Done /\ R.ok
    /\ Len(ast_class.method_redeclarations) = 2
    /\ ast_class.method_redeclarations[1].trait_.shape = "Hprim"
    /\ ast_class.method_redeclarations[2].trait_.shape = "Hthis"
    /\ R.out.method_trait_resolutions[1][2] = S_int
    /\ R.out.method_trait_resolutions[2][2] = S_this

\* a type constant without initializer: abstract with no default, or
\* partially-abstract or concrete with no initializer expression
NoInitializer(tc) ==
    \/ tc.abstract_.kind = "TCAbstract" /\ tc.abstract_.default = None
    \/ tc.abstract_.kind \in {"TCPartiallyAbstract", "TCConcrete"} /\ tc.type_ = None
\* the hint supplied otherwise: the abstract constant's default, else the
\* initializer expression
SuppliedHint(tc) ==
    IF tc.abstract_.kind = "TCAbstract" THEN unwrap(tc.abstract_.default) ELSE unwrap(tc.type_)
ConstantValue(tc) ==
    hint_to_type_constant(emitter.options, <<>>, <<>>, SuppliedHint(tc), FALSE, FALSE)
TypeConstCalls ==
    SelectSeq(calls, LAMBDA c : c.fn = "emit_type_constant::hint_to_type_constant")

\* C10: a lowered type constant has initializer None exactly when it is
\* abstract with no default, or partially-abstract or concrete with no
\* initializer expression; otherwise the constant-value collaborator is invoked
\* exactly once, on the supplied hint with an empty type-parameter list and an
\* empty bound map, and its result or its error is the outcome.  On success
\* type_constants has one entry per declared type constant, in order.
C10_TypeConstantInitializer ==
    Done =>
        LET tcs == ast_class.typeconsts
            bad == {i \in 1..Len(tcs) : ~NoInitializer(tcs[i]) /\ ~ConstantValue(tcs[i]).ok}
            last == IF bad = {} THEN Len(tcs) ELSE CHOOSE i \in bad : \A j \in bad : i <= j
            reached == \A st \in {"attributes", "uses", "redeclarations", "enum", "closure",
                                  "properties"} : StepResult(ast_class, st).ok
        IN  /\ R.ok =>
                /\ bad = {}
                /\ Len(R.out.type_constants) = Len(tcs)
                /\ \A i \in 1..Len(tcs) :
                    /\ R.out.type_constants[i].name = tcs[i].name.name
                    /\ R.out.type_constants[i].initializer = None <=> NoInitializer(tcs[i])
                    /\ ~NoInitializer(tcs[i]) =>
                            R.out.type_constants[i].initializer = Some(ConstantValue(tcs[i]).val)
            /\ (reached /\ bad /= {}) => (~R.ok /\ R.out = ConstantValue(tcs[last]).err)
            /\ reached =>
                TypeConstCalls =
                    Flatten([i \in 1..last |->
                        IF NoInitializer(tcs[i]) THEN <<>> ELSE ConstantValue(tcs[i]).calls])
            /\ \A i \in 1..Len(TypeConstCalls) :
                    TypeConstCalls[i].tparams = <<>> /\ TypeConstCalls[i].targ_map = <<>>

C10_Witness ==
    /\ Done /\ R.ok
    /\ Len(ast_class.typeconsts) = 2
    /\ ast_class.typeconsts[1].abstract_.kind = "TCAbstract"
    /\ is_some(ast_class.typeconsts[1].abstract_.default)
    /\ is_some(ast_class.typeconsts[1].type_)
    /\ ast_class.typeconsts[2].abstract_.kind = "TCAbstract"
    /\ ~is_some(ast_class.typeconsts[2].abstract_.default)
    /\ is_some(ast_class.typeconsts[2].type_)
    /\ unwrap(R.out.type_constants[1].initializer).classname = S_A
    /\ R.out.type_constants[2].initializer = None
    /\ Len(TypeConstCalls) = 1
    /\ TypeConstCalls[1].pos = ast_class.typeconsts[1].abstract_.default[1].pos

====
